---- MODULE Spec2Model ----
(***************************************************************************)
(* Model of the weibo_trending pipeline: main() sequencing WeiboFetcher,   *)
(* WeiboSummarizer and WeiboEmailNotifier, and the stand-alone              *)
(* DeepSeekSummarizer retry engine.  Remote services (ranking provider,    *)
(* completion provider, SMTP server, file system) answer                   *)
(* nondeterministically at the step that calls them.                       *)
(***************************************************************************)
EXTENDS Integers, Sequences, FiniteSets, TLC

VARIABLES
    entry,              \* entry point running in this process: "none", "main", "weibo_summarize", "deepseek_summarize"
    pc,                 \* position of main(): "start" .. "returned", "exited"
    env,                \* environment keys read by os.getenv
    smtp_port,          \* main.smtp_port after int(): 0 before it is read
    topics,             \* main.topics (result of fetch_hot_topics)
    summary,            \* main.summary (result of WeiboSummarizer.summarize)
    returned,           \* return value of main(): "none", "True", "False"
    logged,             \* the logger.error line written by main() on its way out
    exitCode,           \* argument of sys.exit, -1 while the process runs
    calls,              \* stage entry points invoked by main(), in order
    fatals,             \* number of unusable stage results main() has received
    rankingRequests,    \* requests.get calls issued
    ranking_response,   \* what the ranking provider answered
    completionRequests, \* chat.completions.create calls issued
    ws_topics,          \* argument of a direct WeiboSummarizer.summarize call
    ws_response,        \* what the completion provider answered to WeiboSummarizer
    ws_result,          \* result of a direct WeiboSummarizer.summarize call
    ds_pc,              \* DeepSeekSummarizer.summarize: "idle", "loop", "returned"
    ds_content,         \* its content argument
    retry_delay,        \* self.retry_delay
    attempt,            \* loop variable of the retry loop
    last_error,         \* last_error
    ds_result,          \* its return value
    ds_log,             \* one record per executed iteration of the retry loop
    summary_text,       \* summary_text, None while nothing was assigned to it
    last_error_at,      \* the iteration that assigned last_error, -1 while it is None
    n_pc,               \* WeiboEmailNotifier.send_email: "idle", "connect", "login", "send", "close", "returned"
    n_attempt,          \* loop variable of the send loop
    n_exc,              \* exception that ended the latest failed attempt: [kind, step]
    n_tls,              \* how the session of the latest attempt is secured: "none", "implicit", "starttls"
    sessionOpen,        \* an SMTP_SSL session is open
    sessionsOpened,     \* sessions opened so far
    transmissions,      \* successful send_message calls
    pending,            \* exception in flight inside the with block: "none", "smtp", "other"
    email_sent,         \* return value of send_email: "none", "True", "False"
    f_limit,            \* limit argument of a direct fetch_hot_topics call
    f_result,           \* its result
    html_topics,        \* topics argument of _generate_html
    html_rows,          \* the table rows it rendered
    fmt_input,          \* a topic's hotwordnum value handed to both formatters
    fmt_notifier,       \* heat_str computed by WeiboEmailNotifier._generate_html
    fmt_fetcher,        \* heat_str computed by WeiboFetcher.format_topics
    r_pc,               \* EmailNotifier.send_reddit_news_email: "idle", "loop", "returned"
    r_posts,            \* its posts argument
    r_max_retries,      \* its max_retries argument
    r_starttls,         \* self.use_tls and not self.use_ssl
    r_attempt,          \* attempt
    r_result,           \* its return value: "none", "True", "False"
    r_sessions,         \* one record per executed iteration: where it raised, and the
                        \* state of the connection it created when the iteration ended
    artifacts,          \* the audit files main() has created
    failed_write        \* the audit file whose writing raised, "none" if none did

mainVars == <<pc, env, smtp_port, topics, summary, returned, logged, exitCode, calls, fatals, rankingRequests, ranking_response>>
wsVars   == <<ws_topics, ws_response, ws_result>>
dsVars   == <<ds_pc, ds_content, retry_delay, attempt, last_error, ds_result, ds_log,
              summary_text, last_error_at>>
nVars    == <<n_pc, n_attempt, n_exc, n_tls, sessionOpen, sessionsOpened, transmissions, pending, email_sent>>
fVars    == <<f_limit, f_result>>
hVars    == <<html_topics, html_rows>>
fmtVars  == <<fmt_input, fmt_notifier, fmt_fetcher>>
rVars    == <<r_pc, r_posts, r_max_retries, r_starttls, r_attempt, r_result, r_sessions>>
callVars == <<fVars, hVars, fmtVars, rVars>>
auditVars == <<artifacts, failed_write>>
vars     == <<entry, mainVars, completionRequests, wsVars, dsVars, nVars, callVars, auditVars>>

(***************************************************************************)
(* Bounds of the model                                                     *)
(***************************************************************************)
\* longest completion text
MaxTextLen == 2
\* longest list the ranking provider returns
MaxList == 3
\* largest retry_delay a caller configures
MaxBaseDelay == 2
\* largest limit handed to a direct fetch_hot_topics call
MaxLimit == 4
\* longest batch handed to a direct _generate_html call
MaxBatch == 32
\* longest hotwordnum string
MaxWeightLen == 5
\* largest max_retries handed to send_reddit_news_email
MaxSendRetries == 3

Min(a, b) == IF a < b THEN a ELSE b

(***************************************************************************)
(* Strings: a text is a sequence of characters, so that strip() is         *)
(* computed and not assumed.                                               *)
(***************************************************************************)
Chars == {" ", "a"}

RECURSIVE TextsOfLen(_)
TextsOfLen(n) ==
    IF n = 0 THEN {<<>>}
    ELSE {Append(s, c) : s \in TextsOfLen(n - 1), c \in Chars}

Texts == UNION {TextsOfLen(n) : n \in 0..MaxTextLen}

RECURSIVE LStrip(_)
LStrip(s) == IF s # <<>> /\ Head(s) = " " THEN LStrip(Tail(s)) ELSE s

RECURSIVE RStrip(_)
RStrip(s) ==
    IF s # <<>> /\ s[Len(s)] = " " THEN RStrip(SubSeq(s, 1, Len(s) - 1)) ELSE s

Strip(s) == RStrip(LStrip(s))

\* Optional[str]
None   == [tag |-> "None", text |-> <<>>]
Str(s) == [tag |-> "str", text |-> s]

\* Python truthiness of an Optional[str]
Truthy(v) == v.tag = "str" /\ v.text # <<>>


(***************************************************************************)
(* Ranking provider and WeiboFetcher                                       *)
(***************************************************************************)
Topic == {1, 2}

RECURSIVE ListsOfLen(_)
ListsOfLen(n) ==
    IF n = 0 THEN {<<>>}
    ELSE {Append(l, t) : l \in ListsOfLen(n - 1), t \in Topic}

Lists == UNION {ListsOfLen(n) : n \in 0..MaxList}

\* What requests.get / raise_for_status / response.json can produce.
\* code 200 is the provider's success code; 230 stands for any other code.
RankingResponses ==
    {[kind |-> k, code |-> 0, list |-> <<>>] :
        k \in {"transport_exc", "http_error", "bad_json"}}
    \cup {[kind |-> "json", code |-> c, list |-> l] : c \in {200, 230}, l \in Lists}

NoRanking == [kind |-> "none", code |-> 0, list |-> <<>>]

\* Variant: only requests.exceptions.RequestException is caught, so the
\* ValueError of an unparsable body leaves fetch_hot_topics.
FetchCatches_RequestExceptionOnly(kind) == kind \in {"transport_exc", "http_error"}

\* except requests.exceptions.RequestException / except Exception: every
\* exception raised in the try block of fetch_hot_topics is caught there.
FetchCatches(kind) == kind \in {"transport_exc", "http_error", "bad_json"}

DefaultLimit == 50

\* Variant: the slice keeps one entry too many.
Truncate_OneMore(l, limit) == SubSeq(l, 1, Min(Len(l), limit + 1))

\* hot_topics[:limit]
Truncate(l, limit) == SubSeq(l, 1, Min(Len(l), limit))

\* Variant: the provider's code is not checked.
FetchHotTopics_NoCodeCheck(resp, limit) ==
    IF resp.kind # "json" THEN <<>>
    ELSE Truncate(resp.list, limit)

\* WeiboFetcher.fetch_hot_topics: every exception and every code other
\* than 200 gives the empty list.
FetchHotTopics(resp, limit) ==
    IF resp.kind # "json" THEN <<>>
    ELSE IF resp.code # 200 THEN <<>>
    ELSE Truncate(resp.list, limit)

\* A direct call of WeiboFetcher.fetch_hot_topics(limit).
CallFetch ==
    /\ entry = "none"
    /\ \E limit \in 0..MaxLimit, resp \in RankingResponses :
        /\ entry' = "fetch"
        /\ f_limit' = limit
        /\ rankingRequests' = rankingRequests + 1
        /\ ranking_response' = resp
        /\ f_result' = FetchHotTopics(resp, limit)
    /\ UNCHANGED <<pc, env, smtp_port, topics, summary, returned, logged, exitCode, calls,
                   fatals, completionRequests, wsVars, dsVars, nVars, hVars, fmtVars, rVars,
                   auditVars>>

\* A hotwordnum value before any formatter has seen one.
NoWeight == [type |-> "unset", n |-> 0, s |-> <<>>]

(***************************************************************************)
(* Completion provider                                                     *)
(***************************************************************************)
QuotaIndicators  == {"429", "rate limit", "Rate Limit", "quota"}
ServerIndicators == {"500", "503", "service unavailable", "Service Unavailable"}
ClientIndicators == {"400", "401", "403", "404"}
Indicators == QuotaIndicators \cup ServerIndicators \cup ClientIndicators

\* An error message is modelled by the set of indicator substrings it
\* contains: none, one, or any two of them, which puts every pair of
\* branches of the if / elif chain in competition.
ErrorTexts == {{}} \cup {{a, b} : a, b \in Indicators}

\* error_msg.lower()
LowerToken(t) ==
    CASE t = "Rate Limit" -> "rate limit"
      [] t = "Service Unavailable" -> "service unavailable"
      [] OTHER -> t
Lower(msg) == {LowerToken(t) : t \in msg}

\* What chat.completions.create can produce: an exception carrying an error
\* message, a falsy response object, a response without choices, a choice
\* without message.content and without text, a message whose content is None,
\* a message with content, a choice with a text attribute only.
Responses ==
    {[kind |-> "raise", err |-> m, text |-> <<>>] : m \in ErrorTexts}
    \cup {[kind |-> k, err |-> {}, text |-> <<>>] :
            k \in {"falsy_response", "no_choices", "no_text_attr", "content_none"}}
    \cup {[kind |-> k, err |-> {}, text |-> t] :
            k \in {"content", "text_attr"}, t \in Texts}

\* The empty completions of the specification: no choices, no extractable
\* text, or text that is empty or whitespace-only.
IsEmptyCompletion(r) ==
    \/ r.kind \in {"no_choices", "no_text_attr", "content_none"}
    \/ r.kind \in {"content", "text_attr"} /\ Strip(r.text) = <<>>

(***************************************************************************)
(* WeiboSummarizer.summarize                                               *)
(***************************************************************************)
PromptTopics == 30

\* Lines of the prompt content: one per topic of topics[:30].
ContentLines(ts) == Truncate(ts, PromptTopics)

\* One request, no retry.  response.choices[0].message.content.strip():
\* every shape other than a message with string content raises inside the
\* try block and gives None.
WeiboSummarize(ts, r) ==
    IF r.kind = "content" THEN Str(Strip(r.text)) ELSE None


(***************************************************************************)
(* DeepSeekSummarizer.summarize                                            *)
(***************************************************************************)
max_retries == 3

IsQuotaError(msg) ==
    "429" \in msg \/ "rate limit" \in Lower(msg) \/ "quota" \in Lower(msg)

IsServerError(msg) ==
    "500" \in msg \/ "503" \in msg \/ "service unavailable" \in Lower(msg)

IsClientError(msg) ==
    "400" \in msg \/ "401" \in msg \/ "403" \in msg \/ "404" \in msg

\* The if / elif chain of the except block: the first branch that matches.
Classify(msg) ==
    IF IsQuotaError(msg) THEN "quota"
    ELSE IF IsServerError(msg) THEN "server"
    ELSE IF IsClientError(msg) THEN "client"
    ELSE "other"

\* Variant: the quota branch waits no longer than the other branches.
QuotaBackoff_NotDoubled(delay, i) == delay * (i + 1)

QuotaBackoff(delay, i)  == delay * (i + 1) * 2
ServerBackoff(delay, i) == delay * (i + 1)
OtherBackoff(delay, i)  == delay * (i + 1)

\* Argument of time.sleep in the except block; 0 when the branch does not sleep.
WaitTime(class, delay, i) ==
    CASE class = "quota"  -> QuotaBackoff(delay, i)
      [] class = "server" -> ServerBackoff(delay, i)
      [] class = "client" -> 0
      [] OTHER -> IF i < max_retries - 1 THEN OtherBackoff(delay, i) ELSE 0

\* Variant: the client-error branch falls through to the next iteration.
AbortsLoop_Never(class) == FALSE

\* The client-error branch returns None out of the loop.
AbortsLoop(class) == class = "client"

\* Variant: the stripped text is returned without the emptiness check.
DSOutcome_NoBlankCheck(r) ==
    IF r.kind = "raise" THEN "except"
    ELSE IF r.kind \in {"falsy_response", "no_choices", "no_text_attr", "content_none"}
        THEN "continue"
    ELSE IF r.text = <<>> THEN "continue"
    ELSE "return"

\* The try block of one iteration: "except", "continue" or "return".
DSOutcome(r) ==
    IF r.kind = "raise" THEN "except"
    ELSE IF r.kind \in {"falsy_response", "no_choices", "no_text_attr", "content_none"}
        THEN "continue"
    ELSE IF r.text = <<>> THEN "continue"
    ELSE IF Strip(r.text) = <<>> THEN "continue"
    ELSE "return"

NoError    == [tag |-> "None", msg |-> {}]
Error(msg) == [tag |-> "err", msg |-> msg]

\* The content arguments tried: empty, blank, and one with text.  Past the
\* check of lines 83-85 the content only fills the prompt.
Contents == {<<>>, <<" ">>, <<"a">>}

\* not content or len(content.strip()) == 0
ContentRejected(c) == c = <<>> \/ Len(Strip(c)) = 0

\* A caller invokes DeepSeekSummarizer.summarize(content) with the retry
\* policy of the instance.
CallDeepSeek ==
    /\ UNCHANGED <<callVars, auditVars>>
    /\ entry = "none"
    /\ \E c \in Contents, d \in 1..MaxBaseDelay :
        /\ entry' = "deepseek_summarize"
        /\ ds_content' = c
        /\ retry_delay' = d
        /\ IF ContentRejected(c)
           THEN /\ ds_pc' = "returned"
                /\ ds_result' = None
           ELSE /\ ds_pc' = "loop"
                /\ ds_result' = ds_result
    /\ UNCHANGED <<attempt, last_error, last_error_at, ds_log, summary_text,
                   completionRequests, mainVars,
                   wsVars, nVars>>

\* Variant: an iteration that ends in continue waits like an unclassified
\* error.
IterationWait_BackoffOnContinue(out, class, delay, i) ==
    IF out = "except" THEN WaitTime(class, delay, i)
    ELSE IF out = "continue" /\ i < max_retries - 1 THEN OtherBackoff(delay, i)
    ELSE 0

\* Seconds slept by one iteration: time.sleep is called in the except block
\* only; the continue statements and the return of the try block do not wait.
IterationWait(out, class, delay, i) ==
    IF out = "except" THEN WaitTime(class, delay, i) ELSE 0

\* One iteration of for attempt in range(self.max_retries), together with
\* the fall-through after the last iteration.
DSAttempt ==
    /\ UNCHANGED <<callVars, auditVars>>
    /\ ds_pc = "loop"
    /\ attempt < max_retries
    /\ \E r \in Responses :
        LET out   == DSOutcome(r)
            class == IF out = "except" THEN Classify(r.err) ELSE "none"
            wait  == IterationWait(out, class, retry_delay, attempt)
            stop  == out = "return" \/ (out = "except" /\ AbortsLoop(class))
            last  == attempt + 1 >= max_retries
        IN  /\ completionRequests' = completionRequests + 1
            /\ last_error' = IF out = "except" THEN Error(r.err) ELSE last_error
            /\ last_error_at' = IF out = "except" THEN attempt ELSE last_error_at
            /\ ds_log' = Append(ds_log,
                    [attempt |-> attempt, kind |-> r.kind, class |-> class, wait |-> wait,
                     empty |-> IsEmptyCompletion(r)])
            /\ summary_text' = IF r.kind \in {"content", "text_attr"} THEN Str(r.text)
                               ELSE IF r.kind = "content_none" THEN None
                               ELSE summary_text
            /\ IF stop \/ last
               THEN /\ ds_pc' = "returned"
                    /\ ds_result' = IF out = "return" THEN Str(Strip(r.text)) ELSE None
                    /\ attempt' = attempt
               ELSE /\ attempt' = attempt + 1
                    /\ UNCHANGED <<ds_pc, ds_result>>
    /\ UNCHANGED <<entry, ds_content, retry_delay, mainVars, wsVars, nVars>>

(***************************************************************************)
(* A direct call of WeiboSummarizer.summarize(topics)                      *)
(***************************************************************************)
NoResponse == [kind |-> "none", err |-> {}, text |-> <<>>]

CallWeiboSummarize ==
    /\ UNCHANGED <<callVars, auditVars>>
    /\ entry = "none"
    /\ \E ts \in Lists, r \in Responses :
        /\ entry' = "weibo_summarize"
        /\ ws_topics' = ts
        /\ ws_response' = r
        /\ completionRequests' = completionRequests + 1
        /\ ws_result' = WeiboSummarize(ts, r)
    /\ UNCHANGED <<mainVars, dsVars, nVars>>


(***************************************************************************)
(* WeiboEmailNotifier.send_email                                           *)
(***************************************************************************)
SendAttempts == 3

NoExc == [kind |-> "none", step |-> "none"]

\* Outcomes of a library call on the session: it succeeds, raises an
\* smtplib.SMTPException, or raises another exception (OSError from the
\* socket or TLS layer, ValueError from message flattening).
StepOutcomes == {"ok", "smtp", "other"}

\* Outcomes of SMTP.__exit__: QUIT answered 221, the server had already
\* disconnected (swallowed), or QUIT answered another code (SMTPResponseException).
CloseOutcomes == {"ok", "disconnected", "bad_code"}

\* except smtplib.SMTPException
CaughtByRetryLoop(kind) == kind = "smtp"

\* if attempt == 2: raise
IsLastSendAttempt(a) == a = SendAttempts - 1

\* An attempt ended with exception kind raised at step: the inner handler
\* retries an SMTPException unless it was the last attempt; everything else
\* reaches the outer handler, which returns False.
AttemptFailed(kind, step) ==
    /\ n_exc' = [kind |-> kind, step |-> step]
    /\ IF CaughtByRetryLoop(kind) /\ ~IsLastSendAttempt(n_attempt)
       THEN /\ n_attempt' = n_attempt + 1
            /\ n_pc' = "connect"
            /\ email_sent' = email_sent
       ELSE /\ n_attempt' = n_attempt
            /\ n_pc' = "returned"
            /\ email_sent' = "False"

\* The class send_email instantiates for the session: smtplib.SMTP_SSL,
\* whatever the port.
TlsMode(port) == "implicit"

\* smtplib.SMTP_SSL(self.smtp_server, self.smtp_port, timeout=30)
NConnect ==
    /\ UNCHANGED <<callVars, auditVars>>
    /\ n_pc = "connect"
    /\ n_tls' = TlsMode(smtp_port)
    /\ \E o \in StepOutcomes :
        IF o = "ok"
        THEN /\ sessionOpen' = TRUE
             /\ sessionsOpened' = sessionsOpened + 1
             /\ n_pc' = "login"
             /\ UNCHANGED <<n_attempt, n_exc, email_sent>>
        ELSE /\ AttemptFailed(o, "connect")
             /\ UNCHANGED <<sessionOpen, sessionsOpened>>
    /\ UNCHANGED <<entry, mainVars, completionRequests, wsVars, dsVars, transmissions, pending>>

\* server.login(self.sender, self.password)
NLogin ==
    /\ UNCHANGED <<callVars, auditVars>>
    /\ n_pc = "login"
    /\ \E o \in StepOutcomes :
        /\ pending' = IF o = "ok" THEN "none" ELSE o
        /\ n_pc' = IF o = "ok" THEN "send" ELSE "close"
        /\ n_exc' = IF o = "ok" THEN n_exc ELSE [kind |-> o, step |-> "login"]
    /\ UNCHANGED <<entry, mainVars, completionRequests, wsVars, dsVars,
                   n_attempt, n_tls, sessionOpen, sessionsOpened, transmissions, email_sent>>

\* server.send_message(msg)
NSend ==
    /\ UNCHANGED <<callVars, auditVars>>
    /\ n_pc = "send"
    /\ \E o \in StepOutcomes :
        /\ pending' = IF o = "ok" THEN "none" ELSE o
        /\ transmissions' = IF o = "ok" THEN transmissions + 1 ELSE transmissions
        /\ n_exc' = IF o = "ok" THEN n_exc ELSE [kind |-> o, step |-> "send"]
    /\ n_pc' = "close"
    /\ UNCHANGED <<entry, mainVars, completionRequests, wsVars, dsVars,
                   n_attempt, n_tls, sessionOpen, sessionsOpened, email_sent>>

\* Variant: the session is closed only when the block ends normally.
NClose_LeakOnException ==
    /\ UNCHANGED <<callVars, auditVars>>
    /\ n_pc = "close"
    /\ \E q \in CloseOutcomes :
        LET kind == IF q = "bad_code" THEN "smtp" ELSE pending
            step == IF q = "bad_code" THEN "close" ELSE n_exc.step
        IN  IF kind = "none"
            THEN /\ n_pc' = "returned"
                 /\ email_sent' = "True"
                 /\ UNCHANGED <<n_attempt, n_exc>>
            ELSE AttemptFailed(kind, step)
    /\ sessionOpen' = (pending # "none")
    /\ pending' = "none"
    /\ UNCHANGED <<entry, mainVars, completionRequests, wsVars, dsVars,
                   n_tls, sessionsOpened, transmissions>>

\* Leaving the with block: SMTP.__exit__ sends QUIT and closes the socket.
\* An exception raised by __exit__ replaces the one in flight.
NClose ==
    /\ UNCHANGED <<callVars, auditVars>>
    /\ n_pc = "close"
    /\ \E q \in CloseOutcomes :
        LET kind == IF q = "bad_code" THEN "smtp" ELSE pending
            step == IF q = "bad_code" THEN "close" ELSE n_exc.step
        IN  IF kind = "none"
            THEN /\ n_pc' = "returned"
                 /\ email_sent' = "True"
                 /\ UNCHANGED <<n_attempt, n_exc>>
            ELSE AttemptFailed(kind, step)
    /\ sessionOpen' = FALSE
    /\ pending' = "none"
    /\ UNCHANGED <<entry, mainVars, completionRequests, wsVars, dsVars,
                   n_tls, sessionsOpened, transmissions>>

(***************************************************************************)
(* WeiboEmailNotifier._generate_html: the rows of the topic table          *)
(***************************************************************************)
DisplayedTopics == 30

\* Variant: every topic of the batch gets a row.
RenderRows_NoCap(ts) == [i \in 1..Len(ts) |-> [rank |-> i, topic |-> ts[i]]]

\* for i, topic in enumerate(topics[:30], 1): one <tr> per topic, carrying
\* its rank i and the topic.
RenderRows(ts) ==
    LET shown == Truncate(ts, DisplayedTopics)
    IN  [i \in 1..Len(shown) |-> [rank |-> i, topic |-> shown[i]]]

\* Batches of n topics that are all different, in ascending or descending
\* order of their identity.
RankedBatch(n, descending) ==
    [i \in 1..n |-> IF descending THEN n + 1 - i ELSE i]

\* A direct call of _generate_html(summary, topics).
CallGenerateHtml ==
    /\ entry = "none"
    /\ \E n \in 0..MaxBatch, d \in BOOLEAN :
        /\ entry' = "generate_html"
        /\ html_topics' = RankedBatch(n, d)
        /\ html_rows' = RenderRows(RankedBatch(n, d))
    /\ UNCHANGED <<mainVars, completionRequests, wsVars, dsVars, nVars, fVars, fmtVars, rVars,
                   auditVars>>

(***************************************************************************)
(* Formatting of a topic's hotwordnum (heat) in _generate_html and in      *)
(* WeiboFetcher.format_topics.  The rendered text is a sequence of         *)
(* characters; "wan" stands for the unit suffix.                           *)
(***************************************************************************)
DigitChars == <<"0", "1", "2", "3", "4", "5", "6", "7", "8", "9">>

DigitOf(d) == DigitChars[d + 1]

IsDigit(c) == \E d \in 0..9 : DigitChars[d + 1] = c

DigitVal(c) == CHOOSE d \in 0..9 : DigitChars[d + 1] = c

\* str(n) for n >= 0
RECURSIVE NatToStr(_)
NatToStr(n) ==
    IF n < 10 THEN <<DigitOf(n)>>
    ELSE Append(NatToStr(n \div 10), DigitOf(n % 10))

\* str(heat)
IntToStr(n) == IF n < 0 THEN <<"-">> \o NatToStr(0 - n) ELSE NatToStr(n)

\* Value of a string of decimal digits.
RECURSIVE DigitsValue(_)
DigitsValue(s) ==
    IF s = <<>> THEN 0
    ELSE DigitsValue(SubSeq(s, 1, Len(s) - 1)) * 10 + DigitVal(s[Len(s)])

AllDigits(s) == s # <<>> /\ \A i \in 1..Len(s) : IsDigit(s[i])

\* The hotwordnum values tried: integers, strings over a few characters
\* (digits, blank, a letter) and None.  No value lies half-way between two
\* one-decimal results unless heat/10000 is an exact binary fraction.
IntWeights == {0 - 1, 0, 999, 9999, 10000, 10049, 12345, 12500, 17500, 99950, 123456}

WeightChars == {"0", "1", "9", " ", "x"}

RECURSIVE WeightStringsOfLen(_)
WeightStringsOfLen(n) ==
    IF n = 0 THEN {<<>>}
    ELSE {Append(s, c) : s \in WeightStringsOfLen(n - 1), c \in WeightChars}

WeightValues ==
    {[type |-> "int", n |-> w, s |-> <<>>] : w \in IntWeights}
    \cup {[type |-> "str", n |-> 0, s |-> t] :
            t \in UNION {WeightStringsOfLen(k) : k \in 0..MaxWeightLen}}
    \cup {[type |-> "None", n |-> 0, s |-> <<>>]}

\* int(hotwordnum) succeeds: an int, or a string of digits with optional
\* surrounding blanks.
CanCoerce(v) == v.type = "int" \/ (v.type = "str" /\ AllDigits(Strip(v.s)))

\* int(hotwordnum)
Coerce(v) == IF v.type = "int" THEN v.n ELSE DigitsValue(Strip(v.s))

\* f"{heat_str}" of the value itself, after int() raised.
RawText(v) == IF v.type = "str" THEN v.s ELSE <<"N", "o", "n", "e">>

\* Tenths of heat/10000 as ".1f" rounds them: to nearest, an exact tie to
\* the even digit.
RoundTenths(heat) ==
    LET q == heat \div 1000
        r == heat % 1000
    IN  IF r > 500 THEN q + 1
        ELSE IF r < 500 THEN q
        ELSE IF q % 2 = 0 THEN q ELSE q + 1

\* f"{heat/10000:.1f}" followed by the unit
ScaledText(heat) ==
    LET t == RoundTenths(heat)
    IN  NatToStr(t \div 10) \o <<".", DigitOf(t % 10), "wan">>

\* heat at or above which the value is shown in units of ten thousand
WanThreshold == 10000

\* weibo_email_notifier.py lines 100-107
NotifierHeatStr(v) ==
    IF CanCoerce(v)
    THEN IF Coerce(v) >= WanThreshold THEN ScaledText(Coerce(v)) ELSE IntToStr(Coerce(v))
    ELSE RawText(v)

\* Variant: the threshold is exclusive.
FetcherHeatStr_ExclusiveThreshold(v) ==
    IF CanCoerce(v)
    THEN IF Coerce(v) > WanThreshold THEN ScaledText(Coerce(v)) ELSE IntToStr(Coerce(v))
    ELSE RawText(v)

\* weibo_fetcher.py lines 89-96
FetcherHeatStr(v) ==
    IF CanCoerce(v)
    THEN IF Coerce(v) >= WanThreshold THEN ScaledText(Coerce(v)) ELSE IntToStr(Coerce(v))
    ELSE RawText(v)

\* Both formatters applied to one topic whose hotwordnum is v.
CallFormatWeight ==
    /\ entry = "none"
    /\ \E v \in WeightValues :
        /\ entry' = "format_weight"
        /\ fmt_input' = v
        /\ fmt_notifier' = NotifierHeatStr(v)
        /\ fmt_fetcher' = FetcherHeatStr(v)
    /\ UNCHANGED <<mainVars, completionRequests, wsVars, dsVars, nVars, fVars, hVars, rVars,
                   auditVars>>

(***************************************************************************)
(* EmailNotifier.send_reddit_news_email                                    *)
(***************************************************************************)
\* The posts arguments tried: no post, one post.
PostLists == {<<>>, <<1>>}

\* How an iteration can end: every call returned ("none"), or the call
\* failed_at raised; starttls is called only when use_tls is set and
\* use_ssl is not.  A constructor that raises gives no connection.  A call
\* on the connection raises either after smtplib closed the socket itself
\* (SMTPServerDisconnected: a dropped or timed-out connection) or with the
\* connection still open (SMTPAuthenticationError, SMTPRecipientsRefused,
\* SMTPNotSupportedError, ...); quit() raises only in the first way.
RedditOutcomes(starttls) ==
    {[failed_at |-> "none", dropped |-> FALSE],
     [failed_at |-> "connect", dropped |-> FALSE]}
    \cup {[failed_at |-> st, dropped |-> d] :
            st \in ({"login", "sendmail"} \cup (IF starttls THEN {"starttls"} ELSE {})),
            d \in BOOLEAN}
    \cup {[failed_at |-> "quit", dropped |-> TRUE]}

\* State of the connection the iteration created when the iteration is
\* over: quit() closes it; the except block (lines 268-273) only logs, so
\* after an exception it is closed only if smtplib had closed it.
ConnectionAfter(o) ==
    IF o.failed_at = "connect" THEN "none"
    ELSE IF o.failed_at = "none" THEN "closed"
    ELSE IF o.dropped THEN "closed"
    ELSE "open"

\* A caller invokes send_reddit_news_email(summary, posts, max_retries).
CallSendReddit ==
    /\ entry = "none"
    /\ \E posts \in PostLists, m \in 0..MaxSendRetries, tls \in BOOLEAN :
        /\ entry' = "send_reddit"
        /\ r_posts' = posts
        /\ r_max_retries' = m
        /\ r_starttls' = tls
        /\ IF posts = <<>> \/ m = 0
           THEN /\ r_pc' = "returned"
                /\ r_result' = "False"
           ELSE /\ r_pc' = "loop"
                /\ r_result' = r_result
    /\ UNCHANGED <<r_attempt, r_sessions>>
    /\ UNCHANGED <<mainVars, completionRequests, wsVars, dsVars, nVars, fVars, hVars, fmtVars,
                   auditVars>>

\* One iteration of for attempt in range(max_retries), together with the
\* return False after the last one.
RedditAttempt ==
    /\ r_pc = "loop"
    /\ r_attempt < r_max_retries
    /\ \E o \in RedditOutcomes(r_starttls) :
        /\ r_sessions' = Append(r_sessions,
                [attempt |-> r_attempt, failed_at |-> o.failed_at,
                 connection |-> ConnectionAfter(o)])
        /\ IF o.failed_at = "none"
           THEN /\ r_pc' = "returned"
                /\ r_result' = "True"
                /\ r_attempt' = r_attempt
           ELSE IF r_attempt + 1 < r_max_retries
           THEN /\ r_attempt' = r_attempt + 1
                /\ UNCHANGED <<r_pc, r_result>>
           ELSE /\ r_pc' = "returned"
                /\ r_result' = "False"
                /\ r_attempt' = r_attempt
    /\ UNCHANGED <<r_posts, r_max_retries, r_starttls>>
    /\ UNCHANGED <<entry, mainVars, completionRequests, wsVars, dsVars, nVars, fVars, hVars,
                   fmtVars, auditVars>>

(***************************************************************************)
(* main()                                                                  *)
(***************************************************************************)
EnvKeys == {"TIANAPI_KEY", "DEEPSEEK_API_KEY", "DEEPSEEK_BASE_URL", "EMAIL_SENDER",
            "EMAIL_PASSWORD", "EMAIL_RECIPIENT", "SMTP_SERVER", "SMTP_PORT"}

PortTexts == {"465", "587", "abc"}

\* int(os.getenv("SMTP_PORT", "465")); -1 stands for ValueError
ParsePort(e, text) ==
    LET t == IF "SMTP_PORT" \in e THEN text ELSE "465"
    IN  CASE t = "465" -> 465
          [] t = "587" -> 587
          [] OTHER -> -1

\* Variant: the result of fetch is not checked.
TopicsUsable_Always(ts) == TRUE

\* if not topics
TopicsUsable(ts) == ts # <<>>

\* Variant: the result of summarize is not checked.
SummaryUsable_Always(v) == TRUE

\* if not summary
SummaryUsable(v) == Truthy(v)

\* Variant: the process always exits with status 0.
ExitStatus_AlwaysZero(success) == 0

\* sys.exit(0 if success else 1)
ExitStatus(success) == IF success = "True" THEN 0 ELSE 1

\* Variant: a failed fetch sends main() back to the fetch stage.
ReturnFalse_FetchAgain(line) ==
    /\ pc' = (IF line = "fetch_failed" THEN "fetch" ELSE "returned")
    /\ returned' = (IF line = "fetch_failed" THEN returned ELSE "False")
    /\ logged' = line

\* return False after logger.error(line)
ReturnFalse(line) ==
    /\ pc' = "returned"
    /\ returned' = "False"
    /\ logged' = line

\* Variant: the mail settings are not checked.
MainStart_NoEmailCheck ==
    /\ UNCHANGED <<callVars, auditVars>>
    /\ entry = "none"
    /\ \E e \in SUBSET EnvKeys, p \in PortTexts :
        /\ ("SMTP_PORT" \notin e => p = "465")
        /\ entry' = "main"
        /\ env' = e
        /\ LET port == ParsePort(e, p)
           IN  IF port = -1
               THEN /\ ReturnFalse("exception")
                    /\ smtp_port' = smtp_port
               ELSE /\ smtp_port' = port
                    /\ IF "TIANAPI_KEY" \notin e
                            THEN ReturnFalse("tianapi_key_unset")
                       ELSE IF "DEEPSEEK_API_KEY" \notin e
                            THEN ReturnFalse("deepseek_api_key_unset")
                       ELSE /\ pc' = "fetch"
                            /\ UNCHANGED <<returned, logged>>
    /\ UNCHANGED <<topics, summary, exitCode, calls, fatals, rankingRequests,
                   ranking_response, completionRequests, wsVars, dsVars, nVars>>

\* Lines 30-60: read the configuration and check the required keys.
MainStart ==
    /\ UNCHANGED <<callVars, auditVars>>
    /\ entry = "none"
    /\ \E e \in SUBSET EnvKeys, p \in PortTexts :
        /\ ("SMTP_PORT" \notin e => p = "465")
        /\ entry' = "main"
        /\ env' = e
        /\ LET port == ParsePort(e, p)
           IN  IF port = -1
               THEN /\ ReturnFalse("exception")
                    /\ smtp_port' = smtp_port
               ELSE /\ smtp_port' = port
                    /\ IF "TIANAPI_KEY" \notin e
                            THEN ReturnFalse("tianapi_key_unset")
                       ELSE IF "DEEPSEEK_API_KEY" \notin e
                            THEN ReturnFalse("deepseek_api_key_unset")
                       ELSE IF ~({"EMAIL_SENDER", "EMAIL_PASSWORD", "EMAIL_RECIPIENT"} \subseteq e)
                            THEN ReturnFalse("email_config_incomplete")
                       ELSE /\ pc' = "fetch"
                            /\ UNCHANGED <<returned, logged>>
    /\ UNCHANGED <<topics, summary, exitCode, calls, fatals, rankingRequests,
                   ranking_response, completionRequests, wsVars, dsVars, nVars>>

\* Lines 62-71: step 1, fetcher.fetch_hot_topics(limit=50).
MainFetch ==
    /\ UNCHANGED <<callVars, auditVars>>
    /\ pc = "fetch"
    /\ \E resp \in RankingResponses :
        LET ts == FetchHotTopics(resp, DefaultLimit)
        IN  /\ rankingRequests' = rankingRequests + 1
            /\ ranking_response' = resp
            /\ calls' = Append(calls, "fetch")
            /\ IF resp.kind # "json" /\ ~FetchCatches(resp.kind)
               THEN /\ ReturnFalse("exception")
                    /\ UNCHANGED <<topics, fatals>>
               ELSE /\ topics' = ts
                    /\ IF TopicsUsable(ts)
                       THEN /\ pc' = "save_raw"
                            /\ UNCHANGED <<returned, logged, fatals>>
                       ELSE /\ ReturnFalse("fetch_failed")
                            /\ fatals' = fatals + 1
    /\ UNCHANGED <<entry, env, smtp_port, summary, exitCode,
                   completionRequests, wsVars, dsVars, nVars>>

\* The file written at a position of main().
AuditFile(from) == IF from = "save_raw" THEN "weibo_topics_raw.txt" ELSE "weibo_summary.md"

\* with open(file, 'w') as f: f.write(...) either completes, or open raises
\* (no file), or a write raises after open created the file.
SaveOutcomes == {"written", "open_failed", "write_failed"}

\* Variant: a failed write is ignored and main() goes on.
MainSave_IgnoreFailure(from, to) ==
    /\ UNCHANGED callVars
    /\ pc = from
    /\ \E o \in SaveOutcomes :
        /\ pc' = to
        /\ UNCHANGED <<returned, logged>>
        /\ artifacts' = IF o = "open_failed" THEN artifacts
                        ELSE artifacts \cup {AuditFile(from)}
        /\ failed_write' = IF o = "written" THEN failed_write ELSE AuditFile(from)
    /\ UNCHANGED <<entry, env, smtp_port, topics, summary, exitCode, calls, fatals,
                   rankingRequests, ranking_response, completionRequests, wsVars, dsVars, nVars>>

\* Lines 73-77 and 90-97: writing an audit file; an OSError is caught by
\* the except clause of main().
MainSave(from, to) ==
    /\ UNCHANGED callVars
    /\ pc = from
    /\ \E o \in SaveOutcomes :
        /\ IF o = "written"
           THEN /\ pc' = to
                /\ UNCHANGED <<returned, logged>>
           ELSE ReturnFalse("exception")
        /\ artifacts' = IF o = "open_failed" THEN artifacts
                        ELSE artifacts \cup {AuditFile(from)}
        /\ failed_write' = IF o = "written" THEN failed_write ELSE AuditFile(from)
    /\ UNCHANGED <<entry, env, smtp_port, topics, summary, exitCode, calls, fatals,
                   rankingRequests, ranking_response, completionRequests, wsVars, dsVars, nVars>>

MainSaveRaw == MainSave("save_raw", "summarize")

\* Lines 79-88: step 2, WeiboSummarizer(...).summarize(topics).
MainSummarize ==
    /\ UNCHANGED <<callVars, auditVars>>
    /\ pc = "summarize"
    /\ \E r \in Responses :
        LET v == WeiboSummarize(topics, r)
        IN  /\ completionRequests' = completionRequests + 1
            /\ calls' = Append(calls, "summarize")
            /\ ws_response' = r
            /\ summary' = v
            /\ IF SummaryUsable(v)
               THEN /\ pc' = "save_summary"
                    /\ UNCHANGED <<returned, logged, fatals>>
               ELSE /\ ReturnFalse("summarize_failed")
                    /\ fatals' = fatals + 1
    /\ UNCHANGED <<entry, env, smtp_port, topics, exitCode, rankingRequests,
                   ranking_response, ws_topics, ws_result, dsVars, nVars>>

MainSaveSummary == MainSave("save_summary", "deliver")

\* Lines 99-109 and send_email lines 44-59: step 3, the notifier is built,
\* the message is rendered and the send loop starts.
MainDeliver ==
    /\ html_topics' = topics
    /\ html_rows' = RenderRows(topics)
    /\ UNCHANGED <<fVars, fmtVars, rVars,
                   auditVars>>
    /\ pc = "deliver"
    /\ pc' = "delivering"
    /\ calls' = Append(calls, "deliver")
    /\ n_pc' = "connect"
    /\ n_attempt' = 0
    /\ UNCHANGED <<entry, env, smtp_port, topics, summary, returned, logged, exitCode,
                   fatals, rankingRequests, ranking_response, completionRequests, wsVars, dsVars,
                   n_exc, n_tls, sessionOpen, sessionsOpened, transmissions, pending, email_sent>>

\* Variant: the result of send_email is not checked.
MainDeliverReturn_IgnoreResult ==
    /\ UNCHANGED <<callVars, auditVars>>
    /\ pc = "delivering"
    /\ n_pc = "returned"
    /\ pc' = "returned"
    /\ returned' = "True"
    /\ UNCHANGED <<entry, env, smtp_port, topics, summary, logged, fatals, exitCode, calls,
                   rankingRequests, ranking_response, completionRequests, wsVars, dsVars, nVars>>

\* Lines 111-120: the verdict of the run.
MainDeliverReturn ==
    /\ UNCHANGED <<callVars, auditVars>>
    /\ pc = "delivering"
    /\ n_pc = "returned"
    /\ IF email_sent = "True"
       THEN /\ pc' = "returned"
            /\ returned' = "True"
            /\ UNCHANGED <<logged, fatals>>
       ELSE /\ ReturnFalse("deliver_failed")
            /\ fatals' = fatals + 1
    /\ UNCHANGED <<entry, env, smtp_port, topics, summary, exitCode, calls,
                   rankingRequests, ranking_response, completionRequests, wsVars, dsVars, nVars>>

\* Lines 127-129: sys.exit(0 if success else 1).
MainExit ==
    /\ UNCHANGED <<callVars, auditVars>>
    /\ pc = "returned"
    /\ pc' = "exited"
    /\ exitCode' = ExitStatus(returned)
    /\ UNCHANGED <<entry, env, smtp_port, topics, summary, returned, logged, calls,
                   fatals, rankingRequests, ranking_response, completionRequests,
                   wsVars, dsVars, nVars>>

(***************************************************************************)
(* Specification                                                           *)
(***************************************************************************)
Init ==
    /\ entry = "none"
    /\ pc = "start"
    /\ env = {}
    /\ smtp_port = 0
    /\ topics = <<>>
    /\ summary = None
    /\ returned = "none"
    /\ logged = "none"
    /\ exitCode = -1
    /\ calls = <<>>
    /\ fatals = 0
    /\ rankingRequests = 0
    /\ ranking_response = NoRanking
    /\ completionRequests = 0
    /\ ws_topics = <<>>
    /\ ws_response = NoResponse
    /\ ws_result = None
    /\ ds_pc = "idle"
    /\ ds_content = <<>>
    /\ retry_delay = 2
    /\ attempt = 0
    /\ last_error = NoError
    /\ ds_result = None
    /\ ds_log = <<>>
    /\ summary_text = None
    /\ last_error_at = 0 - 1
    /\ n_pc = "idle"
    /\ n_attempt = 0
    /\ n_exc = NoExc
    /\ n_tls = "none"
    /\ sessionOpen = FALSE
    /\ sessionsOpened = 0
    /\ transmissions = 0
    /\ pending = "none"
    /\ email_sent = "none"
    /\ f_limit = 0
    /\ f_result = <<>>
    /\ html_topics = <<>>
    /\ html_rows = <<>>
    /\ fmt_input = NoWeight
    /\ fmt_notifier = <<>>
    /\ fmt_fetcher = <<>>
    /\ r_pc = "idle"
    /\ r_posts = <<>>
    /\ r_max_retries = 3
    /\ r_starttls = TRUE
    /\ r_attempt = 0
    /\ r_result = "none"
    /\ r_sessions = <<>>
    /\ artifacts = {}
    /\ failed_write = "none"

Next ==
    \/ MainStart
    \/ MainFetch
    \/ MainSaveRaw
    \/ MainSummarize
    \/ MainSaveSummary
    \/ MainDeliver
    \/ NConnect
    \/ NLogin
    \/ NSend
    \/ NClose
    \/ MainDeliverReturn
    \/ MainExit
    \/ CallWeiboSummarize
    \/ CallDeepSeek
    \/ DSAttempt
    \/ CallFetch
    \/ CallGenerateHtml
    \/ CallFormatWeight
    \/ CallSendReddit
    \/ RedditAttempt

Spec == Init /\ [][Next]_vars



\* Runs of main() alone.  The process is a single thread that keeps
\* executing and every remote call has a timeout, so a step that can be
\* taken is eventually taken.
MainNext ==
    \/ MainStart
    \/ MainFetch
    \/ MainSaveRaw
    \/ MainSummarize
    \/ MainSaveSummary
    \/ MainDeliver
    \/ NConnect
    \/ NLogin
    \/ NSend
    \/ NClose
    \/ MainDeliverReturn
    \/ MainExit

FairMainSpec == Init /\ [][MainNext]_vars /\ WF_vars(MainNext)

\* Calls of DeepSeekSummarizer.summarize alone.  The call runs in one
\* thread; a completion request returns or raises, and time.sleep returns,
\* so the next iteration is eventually executed.
DSNext ==
    \/ CallDeepSeek
    \/ DSAttempt

FairDSSpec == Init /\ [][DSNext]_vars /\ WF_vars(DSNext)

(***************************************************************************)
(* Vocabulary of the specification, in terms of the program's state        *)
(***************************************************************************)
Stages == <<"fetch", "summarize", "deliver">>

MainDone == entry = "main" /\ pc \in {"returned", "exited"}

Delivered == MainDone /\ returned = "True"

\* Aborted(stage): main() returned False after logging that stage's failure.
Aborted(stage) ==
    /\ MainDone
    /\ returned = "False"
    /\ logged = (CASE stage = "fetch" -> "fetch_failed"
                   [] stage = "summarize" -> "summarize_failed"
                   [] OTHER -> "deliver_failed")

\* main() returned False without a stage having reported failure: a missing
\* configuration key, or an exception caught by main()'s except clause.
FailedOutsideStages ==
    /\ MainDone
    /\ returned = "False"
    /\ logged \in {"tianapi_key_unset", "deepseek_api_key_unset",
                   "email_config_incomplete", "exception"}

IsPrefix(a, b) == Len(a) <= Len(b) /\ a = SubSeq(b, 1, Len(a))

Invoked(stage) == \E i \in 1..Len(calls) : calls[i] = stage

(***************************************************************************)
(* Properties                                                              *)
(***************************************************************************)

\* C1: main() invokes the stages only in the order fetch, summarize,
\* deliver; summarize is invoked only after fetch returned a non-empty
\* batch, deliver only after summarize returned non-empty text, and after a
\* stage yielded no usable result no later stage is invoked (no completion
\* request after a failed fetch, no mail session after a failed summarize).
C1_StageOrder ==
    /\ IsPrefix(calls, Stages)
    /\ (Invoked("summarize") => topics # <<>>)
    /\ (Invoked("deliver") => Truthy(summary))
    /\ (Invoked("fetch") /\ topics = <<>> =>
            calls = <<"fetch">> /\ completionRequests = 0 /\ n_pc = "idle")
    /\ (Invoked("summarize") /\ ~Truthy(summary) =>
            calls = <<"fetch", "summarize">> /\ n_pc = "idle" /\ sessionsOpened = 0)
    /\ (entry = "main" => rankingRequests = (IF Invoked("fetch") THEN 1 ELSE 0))

C1_Witness ==
    /\ entry = "main"
    /\ calls = Stages
    /\ topics # <<>>
    /\ Truthy(summary)
    /\ sessionsOpened > 0

\* C2: the exit code is 0 exactly when the run ended in Delivered (the
\* Notifier reported success); every run that logged a failure (aborted
\* stage, missing configuration, caught exception) exits with code 1.
C2_ExitCode ==
    /\ (pc # "exited" => exitCode = -1)
    /\ (pc = "exited" =>
            /\ exitCode \in {0, 1}
            /\ (exitCode = 0 <=> (returned = "True" /\ email_sent = "True"))
            /\ (logged # "none" => exitCode = 1)
            /\ (email_sent # "True" => exitCode = 1))

C2_Witness == pc = "exited" /\ exitCode = 0 /\ email_sent = "True"

\* C3 as stated: every finished run is in Delivered or in Aborted(stage)
\* with stage one of fetch, summarize, deliver.
C3_Original ==
    MainDone => (Delivered \/ \E i \in 1..3 : Aborted(Stages[i]))

\* C3 as amended, safety part: a finished run is in exactly one of
\* Delivered, Aborted(fetch), Aborted(summarize), Aborted(deliver) or the
\* stage-less failure; Delivered is reached only through fetch, summarize
\* and deliver with usable results; at most one failure reaches main().
C3_TerminalState ==
    /\ (MainDone =>
            /\ Cardinality({o \in {"Delivered", "fetch", "summarize", "deliver", "outside"} :
                    CASE o = "Delivered" -> Delivered
                      [] o = "outside" -> FailedOutsideStages
                      [] OTHER -> Aborted(o)}) = 1
            /\ (Aborted("fetch") <=> (calls = <<"fetch">> /\ topics = <<>>))
            /\ (Aborted("summarize") <=>
                    (calls = <<"fetch", "summarize">> /\ ~Truthy(summary)))
            /\ (Aborted("deliver") <=> (calls = Stages /\ email_sent = "False")))
    /\ (Delivered =>
            /\ calls = Stages
            /\ topics # <<>>
            /\ Truthy(summary)
            /\ email_sent = "True"
            /\ fatals = 0)
    /\ fatals <= 1
    /\ (MainDone => fatals = (IF \E i \in 1..3 : Aborted(Stages[i]) THEN 1 ELSE 0))

\* The terminal state is absorbing: once main() has returned, its return
\* value, the logged failure and the stages invoked never change.
C3_Absorbing ==
    MainDone =>
        /\ MainDone'
        /\ returned' = returned
        /\ logged' = logged
        /\ calls' = calls
        /\ fatals' = fatals

\* C3 (amended): every run of main() terminates, in exactly one terminal
\* state among Delivered, Aborted(fetch), Aborted(summarize),
\* Aborted(deliver) and the stage-less failure (missing configuration or
\* caught exception); the terminal state is absorbing, Delivered is reached
\* only through fetch, summarize and deliver, and at most one failure
\* reaches main() per run.
C3_Terminates ==
    /\ []C3_TerminalState
    /\ [][C3_Absorbing]_vars
    /\ ((entry = "main") ~> (pc = "exited"))

C3_Witness == Aborted("deliver") /\ pc = "exited" /\ fatals = 1

\* C4: a completion error classified as client-error ends the call at
\* once: in DeepSeekSummarizer it is the last iteration of the loop, no
\* sleep follows it, no further request is issued and None is returned; in
\* WeiboSummarizer the single request is the only one and None is returned.
C4_ClientErrorNoRetry ==
    /\ \A k \in 1..Len(ds_log) :
        ds_log[k].class = "client" =>
            /\ k = Len(ds_log)
            /\ ds_log[k].wait = 0
            /\ ds_pc = "returned"
            /\ ds_result = None
            /\ completionRequests = ds_log[k].attempt + 1
    /\ (ws_response.kind = "raise" /\ Classify(ws_response.err) = "client" =>
            /\ completionRequests = 1
            /\ ws_result = None
            /\ summary = None)

C4_Witness ==
    /\ Len(ds_log) = 2
    /\ ds_log[1].class = "server"
    /\ ds_log[2].class = "client"
    /\ ds_pc = "returned"

\* C5 as stated: a run that fetched a non-empty batch, whose first
\* completion was an empty completion (the provider answering with text to
\* a second request), with no audit write and no mail attempt failing, ends
\* in Delivered.
C5_Original ==
    (/\ MainDone
     /\ topics # <<>>
     /\ Invoked("summarize")
     /\ IsEmptyCompletion(ws_response)
     /\ logged # "exception"
     /\ n_exc = NoExc)
    => Delivered

\* C6: when the first completion attempt of a run raises a 401-classified
\* error, exactly one completion request is made in the run, the Notifier
\* is never invoked and the run ends in Aborted("summarize").
C6_Unauthorized ==
    (/\ entry = "main"
     /\ ws_response.kind = "raise"
     /\ "401" \in ws_response.err
     /\ Classify(ws_response.err) = "client")
    => /\ completionRequests = 1
       /\ ~Invoked("deliver")
       /\ n_pc = "idle"
       /\ sessionsOpened = 0
       /\ Aborted("summarize")

C6_Witness ==
    /\ entry = "main"
    /\ pc = "exited"
    /\ ws_response.kind = "raise"
    /\ ws_response.err = {"401"}
    /\ exitCode = 1

\* C7: when the ranking provider's response carries a code other than 200,
\* fetch yields no batch and the run ends in Aborted("fetch") with no
\* completion request and no mail session.
C7_ProviderErrorCode ==
    (/\ entry = "main"
     /\ ranking_response.kind = "json"
     /\ ranking_response.code # 200)
    => /\ topics = <<>>
       /\ Aborted("fetch")
       /\ calls = <<"fetch">>
       /\ completionRequests = 0
       /\ n_pc = "idle"
       /\ sessionsOpened = 0

C7_Witness ==
    /\ entry = "main"
    /\ pc = "exited"
    /\ ranking_response.kind = "json"
    /\ ranking_response.code = 230
    /\ Len(ranking_response.list) = 3
    /\ exitCode = 1

\* C8 as stated: summarize called with an empty batch, or with empty
\* content, returns None and issues no completion request.
C8_Original ==
    /\ (entry = "weibo_summarize" /\ (ws_topics = <<>> \/ ContentLines(ws_topics) = <<>>) =>
            ws_result = None /\ completionRequests = 0)
    /\ (entry = "deepseek_summarize" /\ ContentRejected(ds_content) =>
            ds_result = None /\ completionRequests = 0 /\ ds_pc = "returned")

\* C9: every sleep of the quota branch lasts retry_delay*(i+1)*2 at
\* attempt index i, which is longer than what the server-error and the
\* unclassified branch wait at the same index, and grows strictly with i;
\* the other two branches wait retry_delay*(i+1) when they wait.
C9_Backoff ==
    /\ retry_delay > 0
    /\ \A k \in 1..Len(ds_log) :
        LET e == ds_log[k]
        IN  /\ e.attempt = k - 1
            /\ (e.class = "quota" =>
                    /\ e.wait = retry_delay * (e.attempt + 1) * 2
                    /\ e.wait > ServerBackoff(retry_delay, e.attempt)
                    /\ e.wait > OtherBackoff(retry_delay, e.attempt)
                    /\ \A j \in 1..Len(ds_log) :
                        (j > k /\ ds_log[j].class = "quota") => e.wait < ds_log[j].wait)
            /\ (e.class \in {"server", "other"} /\ e.wait # 0 =>
                    e.wait = retry_delay * (e.attempt + 1))
    /\ \A i \in 0..(max_retries - 2) :
        QuotaBackoff(retry_delay, i) < QuotaBackoff(retry_delay, i + 1)

C9_Witness ==
    /\ Len(ds_log) = 3
    /\ \A k \in 1..3 : ds_log[k].class = "quota"
    /\ ds_log[3].wait = retry_delay * 6
    /\ retry_delay = 2

\* C10 as stated: send_email returns failure only after its third attempt
\* has failed, whatever exception an attempt raised.
C10_Original ==
    (n_pc = "returned" /\ email_sent = "False") => n_attempt = SendAttempts - 1


\* C11: in send_email each attempt opens at most one session, a session is
\* open only between the connect of an attempt and the end of its with
\* block, and none is open when the next attempt starts or when send_email
\* has returned, whichever way the attempt ended.
C11_SessionScoped ==
    /\ (n_pc \in {"idle", "connect", "returned"} => ~sessionOpen)
    /\ (n_pc \in {"login", "send", "close"} => sessionOpen)
    /\ sessionsOpened <= n_attempt + 1
    /\ (n_pc = "connect" => sessionsOpened <= n_attempt)

C11_Witness ==
    /\ n_pc = "connect"
    /\ n_attempt = 1
    /\ n_exc = [kind |-> "smtp", step |-> "send"]
    /\ sessionsOpened = 1
    /\ ~sessionOpen

\* C12 as stated: when send_email has returned True exactly one
\* transmission succeeded during the call, and when it has returned False
\* none did.
C12_Original ==
    n_pc = "returned" =>
        /\ (email_sent = "True" => transmissions = 1)
        /\ (email_sent = "False" => transmissions = 0)


\* The keys main() checks before the first stage.
RequiredKeys == {"TIANAPI_KEY", "DEEPSEEK_API_KEY", "EMAIL_SENDER", "EMAIL_PASSWORD",
                 "EMAIL_RECIPIENT"}

NoStageRan ==
    /\ calls = <<>>
    /\ rankingRequests = 0
    /\ completionRequests = 0
    /\ sessionsOpened = 0
    /\ n_pc = "idle"

\* C13 as stated: when any configuration key (the completion base URL,
\* the mail host and the port included) is absent, the run fails before
\* any stage runs.
C13_Original ==
    (entry = "main" /\ ~(EnvKeys \subseteq env)) =>
        (MainDone /\ returned = "False" /\ NoStageRan)

\* C13 (amended): when the provider API key, the completion API key or one
\* of mail sender, password and recipient is absent, the run ends with the
\* failure verdict before any stage runs (no ranking request, no completion
\* request, no mail session); an absent completion base URL, mail host or
\* port is not a failure: the defaults are used (port 465) and the run goes
\* on to fetch.
C13_RequiredKeys ==
    entry = "main" =>
        /\ (~(RequiredKeys \subseteq env) =>
                MainDone /\ returned = "False" /\ FailedOutsideStages /\ NoStageRan)
        /\ (RequiredKeys \subseteq env =>
                logged \notin {"tianapi_key_unset", "deepseek_api_key_unset",
                               "email_config_incomplete"})
        /\ (RequiredKeys \subseteq env /\ "SMTP_PORT" \notin env =>
                /\ smtp_port = 465
                /\ (pc = "fetch" \/ Invoked("fetch")))

C13_Witness ==
    /\ entry = "main"
    /\ env = EnvKeys \ {"EMAIL_RECIPIENT"}
    /\ pc = "exited"
    /\ exitCode = 1
    /\ logged = "email_config_incomplete"


\* C14: fetch_hot_topics returns the provider's list unmodified and in
\* order when it has at most limit entries, exactly its first limit
\* entries in order when it has more, and never more entries than the
\* provider gave.
C14_FetchTruncates ==
    (ranking_response.kind = "json" /\ ranking_response.code = 200) =>
        LET L == ranking_response.list
        IN  /\ (entry = "fetch" =>
                    /\ (Len(L) <= f_limit => f_result = L)
                    /\ (Len(L) > f_limit =>
                            /\ Len(f_result) = f_limit
                            /\ \A i \in 1..f_limit : f_result[i] = L[i])
                    /\ Len(f_result) <= Len(L))
            /\ (entry = "main" => topics = L)

C14_Witness ==
    /\ entry = "fetch"
    /\ ranking_response.kind = "json"
    /\ ranking_response.code = 200
    /\ ranking_response.list = <<2, 1, 2>>
    /\ f_limit = 2
    /\ f_result = <<2, 1>>


\* C15: the message rendered by _generate_html has min(len(batch), 30)
\* topic rows, never more than 30, and row i shows rank i and the i-th
\* topic of the batch.
C15_RowCap ==
    /\ Len(html_rows) = (IF Len(html_topics) < 30 THEN Len(html_topics) ELSE 30)
    /\ Len(html_rows) <= 30
    /\ \A i \in 1..Len(html_rows) :
        /\ html_rows[i].rank = i
        /\ html_rows[i].topic = html_topics[i]

C15_Witness ==
    /\ entry = "generate_html"
    /\ Len(html_topics) = 32
    /\ html_topics[1] = 32
    /\ Len(html_rows) = 30
    /\ html_rows[30].topic = 3


\* A text of the form <digits> "." <digit> <unit> whose value, in tenths,
\* is within half a tenth of w/10000.
IsScaledRendering(out, w) ==
    /\ Len(out) >= 4
    /\ out[Len(out)] = "wan"
    /\ IsDigit(out[Len(out) - 1])
    /\ out[Len(out) - 2] = "."
    /\ AllDigits(SubSeq(out, 1, Len(out) - 3))
    /\ LET t == DigitsValue(SubSeq(out, 1, Len(out) - 3)) * 10 + DigitVal(out[Len(out) - 1])
       IN  1000 * t - 500 <= w /\ w <= 1000 * t + 500

\* The decimal numeral of w without leading zeros.
IsIntegerLiteral(out, w) ==
    LET digits == IF w < 0 THEN Tail(out) ELSE out
    IN  /\ out # <<>>
        /\ (w < 0 => out[1] = "-")
        /\ AllDigits(digits)
        /\ (Len(digits) > 1 => digits[1] # "0")
        /\ DigitsValue(digits) = (IF w < 0 THEN 0 - w ELSE w)

\* C16: a weight that coerces to an integer w renders as w/10000 with
\* exactly one decimal and the unit when w >= 10000 and as the integer's
\* numeral when w < 10000; a weight that does not coerce renders as the
\* raw value; the Notifier and the fetcher's formatter agree on every
\* weight.
C16_WeightRendering ==
    fmt_input.type # "unset" =>
        /\ fmt_notifier = fmt_fetcher
        /\ IF fmt_input.type = "int" \/ (fmt_input.type = "str" /\ AllDigits(Strip(fmt_input.s)))
           THEN LET w == IF fmt_input.type = "int" THEN fmt_input.n
                         ELSE DigitsValue(Strip(fmt_input.s))
                IN  IF w >= 10000
                    THEN IsScaledRendering(fmt_notifier, w)
                    ELSE IsIntegerLiteral(fmt_notifier, w)
           ELSE IF fmt_input.type = "str"
                THEN fmt_notifier = fmt_input.s
                ELSE fmt_notifier = <<"N", "o", "n", "e">>

C16_Witness ==
    /\ fmt_input = [type |-> "int", n |-> 12345, s |-> <<>>]
    /\ fmt_notifier = <<"1", ".", "2", "wan">>
    /\ fmt_fetcher = <<"1", ".", "2", "wan">>

\* C17 as stated: the session opened for a delivery attempt is secured by
\* implicit TLS when the configured port is 465 and by STARTTLS on a plain
\* connection when the configured port is 587.
C17_Original ==
    sessionsOpened > 0 =>
        /\ (smtp_port = 465 => n_tls = "implicit")
        /\ (smtp_port = 587 => n_tls = "starttls")

\* The text has no blank at either end.
IsTrimmed(t) == t = <<>> \/ (t[1] # " " /\ t[Len(t)] # " ")

\* t is s without some blanks at its ends.
IsCoreOf(t, s) ==
    \E i, j \in 0..Len(s) :
        /\ i + Len(t) + j = Len(s)
        /\ t = SubSeq(s, i + 1, Len(s) - j)
        /\ \A m \in 1..Len(s) : (m <= i \/ m > Len(s) - j) => s[m] = " "

\* The latest attempt produced text that is not blank.
LatestSucceeded ==
    /\ ds_log # <<>>
    /\ ds_log[Len(ds_log)].kind \in {"content", "text_attr"}
    /\ summary_text.tag = "str"
    /\ \E m \in 1..Len(summary_text.text) : summary_text.text[m] # " "

C18_Bounded ==
    entry = "deepseek_summarize" =>
        /\ completionRequests <= 3
        /\ Len(ds_log) = completionRequests
        /\ ds_pc = "loop" => ~LatestSucceeded
        /\ ds_pc = "returned" =>
            IF LatestSucceeded
            THEN /\ ds_result.tag = "str"
                 /\ ds_result.text # <<>>
                 /\ IsTrimmed(ds_result.text)
                 /\ IsCoreOf(ds_result.text, summary_text.text)
            ELSE ds_result = None

\* C18: a call of DeepSeekSummarizer.summarize issues at most 3 completion
\* requests whatever the attempts' outcomes are, the call always returns,
\* and it returns the trimmed, non-empty text of the first attempt that
\* succeeded (no attempt follows one that succeeded), or None when no
\* attempt did.
C18_BoundedRetry ==
    /\ []C18_Bounded
    /\ ((entry = "deepseek_summarize") ~> (ds_pc = "returned"))

C18_Witness ==
    /\ entry = "deepseek_summarize"
    /\ ds_pc = "returned"
    /\ completionRequests = 3
    /\ ds_log[1].kind = "raise"
    /\ ds_log[2].kind = "content"
    /\ ds_log[3].kind = "text_attr"
    /\ summary_text = Str(<<" ", "a">>)
    /\ ds_result = Str(<<"a">>)

\* The loop ran all its iterations and none returned: the call logs the
\* final failure with last_error and returns None.
Exhausted ==
    /\ entry = "deepseek_summarize"
    /\ ds_pc = "returned"
    /\ Len(ds_log) = max_retries
    /\ ds_result = None
    /\ ~AbortsLoop(ds_log[Len(ds_log)].class)

\* C19 as stated: when all attempts are exhausted the failure that is
\* reported carries the reason of the last failed attempt, be it an
\* exception or an empty completion.
C19_Original ==
    Exhausted =>
        /\ last_error # NoError
        /\ last_error_at = ds_log[Len(ds_log)].attempt

\* C20 as stated: every suspension of the retry loop is followed by another
\* completion attempt; the iteration after which the call returns does not
\* wait, whatever the class of its failure.
C20_Original ==
    entry = "deepseek_summarize" =>
        \A k \in 1..Len(ds_log) :
            ds_log[k].wait > 0 =>
                /\ ds_log[k].attempt < max_retries - 1
                /\ (ds_pc = "returned" => k < Len(ds_log))

\* C21: a completion with no choices, with no extractable text, or with
\* text that is empty or blank is retried: it consumes one attempt, it is
\* followed by the next attempt when one remains, without any wait, and the
\* call does not return it as text.
C21_EmptyCompletionRetried ==
    entry = "deepseek_summarize" =>
        \A k \in 1..Len(ds_log) :
            ds_log[k].empty =>
                /\ ds_log[k].attempt = k - 1
                /\ completionRequests >= k
                /\ ds_log[k].wait = 0
                /\ ds_log[k].class = "none"
                /\ (k < max_retries /\ k = Len(ds_log)) => (ds_pc = "loop" /\ attempt = k)
                /\ (k = Len(ds_log) /\ ds_pc = "returned") => (k = max_retries /\ ds_result = None)

C21_Witness ==
    /\ entry = "deepseek_summarize"
    /\ ds_pc = "returned"
    /\ Len(ds_log) = 3
    /\ ds_log[1].kind = "no_choices" /\ ds_log[1].empty
    /\ ds_log[2].kind = "content" /\ ds_log[2].empty /\ summary_text = Str(<<" ">>)
    /\ ds_log[3].kind = "no_text_attr" /\ ds_log[3].empty
    /\ ds_result = None

\* The request to the ranking provider failed: it raised, the status was an
\* HTTP error, the body was not JSON, or the provider's code is not 200.
FailedRequest(r) ==
    \/ r.kind \in {"transport_exc", "http_error", "bad_json"}
    \/ r.kind = "json" /\ r.code # 200

\* C22: a call of fetch_hot_topics issues exactly one request to the ranking
\* provider; when that request fails in any way the call returns the empty
\* list and raises nothing, and main() ends in Aborted("fetch") having
\* invoked no other stage and issued no second request.
C22_FetchOnce ==
    /\ entry = "fetch" =>
        /\ rankingRequests = 1
        /\ FailedRequest(ranking_response) => f_result = <<>>
    /\ entry = "main" =>
        /\ rankingRequests = (IF Invoked("fetch") THEN 1 ELSE 0)
        /\ FailedRequest(ranking_response) =>
            /\ topics = <<>>
            /\ Aborted("fetch")
            /\ logged # "exception"
            /\ calls = <<"fetch">>

C22_Witness ==
    /\ entry = "main"
    /\ pc = "exited"
    /\ ranking_response.kind = "bad_json"
    /\ rankingRequests = 1
    /\ Aborted("fetch")
    /\ exitCode = 1

\* Number of times main() invoked the stage.
Invocations(stage) == Cardinality({i \in 1..Len(calls) : calls[i] = stage})

\* C23: in a run of main() each of fetch, summarize and deliver is invoked
\* at most once, a stage that failed included; what is repeated is repeated
\* inside the stage (the delivery attempts of one send_email call), and
\* main() issues one ranking request and one completion request at most.
C23_StageOnce ==
    entry = "main" =>
        /\ \A i \in 1..3 : Invocations(Stages[i]) <= 1
        /\ Len(calls) <= 3
        /\ rankingRequests = Invocations("fetch")
        /\ completionRequests = Invocations("summarize")
        /\ sessionsOpened <= 3 * Invocations("deliver")
        /\ \A i \in 1..3 : Aborted(Stages[i]) =>
            /\ Invocations(Stages[i]) = 1
            /\ calls[Len(calls)] = Stages[i]

C23_Witness ==
    /\ entry = "main"
    /\ pc = "exited"
    /\ Aborted("deliver")
    /\ calls = <<"fetch", "summarize", "deliver">>
    /\ sessionsOpened = 3
    /\ transmissions = 0

\* C24 as stated: the class of an error text is the first match in the
\* order quota, server, client, unclassified, and an error text that carries
\* a client-error indicator is classified client-error and ends the call
\* without a further attempt.
C24_Original ==
    (entry = "deepseek_summarize" /\ last_error.tag = "err") =>
        LET m == last_error.msg
            k == last_error_at + 1
            c == ds_log[k].class
        IN  /\ c \in {"quota", "server", "client", "other"}
            /\ c = "quota" <=> IsQuotaError(m)
            /\ c = "server" <=> (~IsQuotaError(m) /\ IsServerError(m))
            /\ c = "client" <=> (~IsQuotaError(m) /\ ~IsServerError(m) /\ IsClientError(m))
            /\ (m \cap ClientIndicators # {}) =>
                /\ c = "client"
                /\ ds_pc = "returned"
                /\ Len(ds_log) = k
                /\ ds_log[k].wait = 0

\* C25 as stated: send_reddit_news_email opens no session and returns
\* False when the post list is empty; otherwise it makes at most
\* max_retries attempts, returns True exactly when some attempt completed
\* connect, login, send and quit, and the session of every attempt that
\* raised has been closed when that attempt is over.
C25_Original ==
    entry = "send_reddit" =>
        /\ r_posts = <<>> => (r_sessions = <<>> /\ r_pc = "returned" /\ r_result = "False")
        /\ Len(r_sessions) <= r_max_retries
        /\ r_pc = "returned" =>
            (r_result = "True" <=>
                \E k \in 1..Len(r_sessions) : r_sessions[k].failed_at = "none")
        /\ \A k \in 1..Len(r_sessions) :
            r_sessions[k].failed_at # "none" => r_sessions[k].connection # "open"

\* C26: when writing an audit file fails, main() returns False, the
\* process exits with code 1 and the stage after that file is not invoked;
\* an audit file exists only if the stage it records succeeded; and a run
\* whose delivery failed has the failure verdict whatever files it wrote.
C26_AuditArtifacts ==
    entry = "main" =>
        /\ failed_write # "none" =>
            /\ MainDone
            /\ returned = "False"
            /\ pc = "exited" => exitCode = 1
            /\ ~Invoked("deliver")
            /\ failed_write = "weibo_topics_raw.txt" => ~Invoked("summarize")
        /\ "weibo_topics_raw.txt" \in artifacts =>
            (Invoked("fetch") /\ topics # <<>>)
        /\ "weibo_summary.md" \in artifacts =>
            (Invoked("summarize") /\ summary.tag = "str" /\ summary.text # <<>>)
        /\ (Invoked("deliver") /\ MainDone /\ email_sent # "True") =>
            /\ artifacts = {"weibo_topics_raw.txt", "weibo_summary.md"}
            /\ returned = "False"
            /\ pc = "exited" => exitCode = 1

C26_Witness ==
    /\ entry = "main"
    /\ pc = "exited"
    /\ failed_write = "weibo_summary.md"
    /\ artifacts = {"weibo_topics_raw.txt", "weibo_summary.md"}
    /\ calls = <<"fetch", "summarize">>
    /\ exitCode = 1

====
